---- MODULE Spec2Model ----
(***************************************************************************)
(* Model of gen_embedded_assets.py: the build-time generator that turns    *)
(* every file matching a pattern into a C header holding its bytes, and    *)
(* writes the manifest embedded_assets.h listing them.                     *)
(*                                                                         *)
(* Text is modelled as sequences of code points (97 is "a", 47 is "/"),    *)
(* so that sanitising, ordering and hex encoding are computed character    *)
(* by character as the program computes them.  A path is the sequence of   *)
(* its components below the input directory, as pathlib holds it.          *)
(***************************************************************************)
EXTENDS Integers, Sequences, FiniteSets, TLC

\* ------------------------------------------------------------------ bounds
MaxRuns == 3          \* runs of the generator over one output directory
MaxDataLen == 34      \* longest byte string handed to write_header alone
MaxRelLen == 3        \* longest relative path handed to sym_from_rel alone

\* --------------------------------------------------------------- constants
RowLen == 16          \* literals per row in write_header

\* ------------------------------------------------------------ sym_from_rel
\* the character class [A-Za-z0-9_] of the regular expression
IsIdentCharSlip(c) == (c \in 65..90) \/ (c \in 97..122) \/ (c \in 46..57) \/ c = 95
IsIdentChar(c) == (c \in 65..90) \/ (c \in 97..122) \/ (c \in 48..57) \/ c = 95

\* "asset_"
ASSET_PREFIX == <<97, 115, 115, 101, 116, 95>>

sym_from_rel(rel) ==
    ASSET_PREFIX \o [n \in 1..Len(rel) |-> IF IsIdentChar(rel[n]) THEN rel[n] ELSE 95]

\* ------------------------------------------------------------ write_header
\* one digit of the format 02x: lower-case hexadecimal
HexDigit(d) == IF d < 10 THEN 48 + d ELSE 87 + d

\* f"0x{b:02x}," : "0x", two hex digits, a comma
HexByteSlip(b) == <<48, 120, HexDigit(b % 16), HexDigit(b % 16), 44>>
HexByte(b) == <<48, 120, HexDigit(b \div 16), HexDigit(b % 16), 44>>

\* the text written between "{\n" and "};": the loop of lines 19-22 and the
\* trailing newline of lines 23-24
RECURSIVE EmitBytes(_, _)
EmitBytes(data, n) ==
    IF n > Len(data) THEN <<>>
    ELSE HexByte(data[n])
         \o (IF n % RowLen = 0 THEN <<10>> ELSE <<>>)
         \o EmitBytes(data, n + 1)

HeaderBody(data) ==
    EmitBytes(data, 1) \o (IF Len(data) % RowLen # 0 THEN <<10>> ELSE <<>>)

\* the file write_header leaves at out_path: the array named sym with its
\* initialiser text, and the value declared for <sym>_len
HeaderFile(sym, data) ==
    [kind |-> "header", sym |-> sym, body |-> HeaderBody(data), len |-> Len(data)]


\* ------------------------------------------------------------ the input tree
\* The files the pattern can match: "a.c", "a/b.c" and "a-b.c".
F_a_c  == << <<97, 46, 99>> >>
F_a_bc == << <<97>>, <<98, 46, 99>> >>
F_a_b_c == << <<97, 45, 98, 46, 99>> >>
CandFiles == {F_a_c, F_a_bc, F_a_b_c}

\* what a candidate file can hold: nothing, 0x01, 0xab
FileContents == {<<>>, <<1>>, <<171>>}
Absent == <<-1>>

\* a tree says of every candidate whether it is there and what it holds
Trees == [CandFiles -> FileContents \cup {Absent}]
NoTree == [p \in CandFiles |-> Absent]

\* Every input directory also holds a directory "d.c", whose name matches
\* the pattern, and a file "n.t", whose name does not.
StaticEntries ==
    { [parts |-> << <<100, 46, 99>> >>, is_file |-> FALSE, data |-> <<>>],
      [parts |-> << <<110, 46, 116>> >>, is_file |-> TRUE, data |-> <<9>>] }

DirEntries(t) ==
    StaticEntries \cup
    { [parts |-> p, is_file |-> TRUE, data |-> t[p]] : p \in {q \in CandFiles : t[q] # Absent} }

\* --pattern, here "*.c*": a name matches when it contains ".c"
PatternCore == <<46, 99>>
Matches(name) ==
    \E o \in 0..(Len(name) - Len(PatternCore)) :
        \A n \in 1..Len(PatternCore) : name[o + n] = PatternCore[n]

\* in_dir.rglob(pattern) looks at every depth, in_dir.glob(pattern) at the
\* input directory's own entries
Globber(t, rec) ==
    { e \in DirEntries(t) : Matches(e.parts[Len(e.parts)]) /\ (rec \/ Len(e.parts) = 1) }

\* [p for p in globber(pattern) if p.is_file()], as a set
Matched(t, rec) == { e.parts : e \in { x \in Globber(t, rec) : x.is_file } }

\* p.read_bytes()
ReadBytes(t, p) == t[p]

\* str(p.relative_to(in_dir)).replace(os.sep, "/")
RECURSIVE RelOf(_)
RelOf(p) == IF Len(p) = 1 THEN p[1] ELSE p[1] \o <<47>> \o RelOf(Tail(p))

\* ------------------------------------------------------------------ sorted
\* str < str: by code point, a proper prefix first
StrLess(s, t) ==
    \E n \in 1..Len(t) :
        /\ n <= Len(s) + 1
        /\ \A m \in 1..(n - 1) : s[m] = t[m]
        /\ (n = Len(s) + 1 \/ s[n] < t[n])

\* Path < Path: pathlib compares the lists of components
PathLess(p, q) ==
    \E n \in 1..Len(q) :
        /\ n <= Len(p) + 1
        /\ \A m \in 1..(n - 1) : p[m] = q[m]
        /\ (n = Len(p) + 1 \/ StrLess(p[n], q[n]))

RECURSIVE Insert(_, _)
Insert(p, s) ==
    IF s = <<>> THEN <<p>>
    ELSE IF PathLess(p, Head(s)) THEN <<p>> \o s
    ELSE <<Head(s)>> \o Insert(p, Tail(s))

RECURSIVE SortPaths(_)
SortPaths(s) == IF s = <<>> THEN <<>> ELSE Insert(Head(s), SortPaths(Tail(s)))

Unsorted(s) == s
sorted(s) == SortPaths(s)

\* the orders in which the file system may enumerate a set of paths
Enumerations(S) ==
    { s \in [1..Cardinality(S) -> S] : \A m, n \in 1..Cardinality(S) : m # n => s[m] # s[n] }

\* ---------------------------------------------------------- the output files
HeaderName(sym) == sym \o <<46, 104>>                       \* f"{sym}.h"
\* "embedded_assets.h"
IDX_NAME == <<101, 109, 98, 101, 100, 100, 101, 100, 95, 97, 115, 115, 101, 116, 115, 46, 104>>
LenName(sym) == sym \o <<95, 108, 101, 110>>                \* f"{sym}_len"

\* the manifest written from entries: the include directives, then the records
DropLastRecord(es) ==
    [kind |-> "manifest",
     includes |-> [n \in 1..Len(es) |-> HeaderName(es[n][2])],
     records |-> [n \in 1..(Len(es) - 1) |-> <<es[n][1], es[n][2], LenName(es[n][2])>>]]
ManifestFile(es) ==
    [kind |-> "manifest",
     includes |-> [n \in 1..Len(es) |-> HeaderName(es[n][2])],
     records |-> [n \in 1..Len(es) |-> <<es[n][1], es[n][2], LenName(es[n][2])>>]]

\* writing a file creates it or replaces what it held
WriteFile(dir, name, content) ==
    [f \in DOMAIN dir \cup {name} |-> IF f = name THEN content ELSE dir[f]]

NoFiles == [f \in {} |-> <<>>]


\* ------------------------------------------------------------------- state
VARIABLES
    in_dir_ok,      \* in_dir.is_dir()
    tree,           \* what the input directory holds during the run
    recursive,      \* args.recursive
    out_dir_exists, \* the output directory has been created
    out_files,      \* the files of the output directory, by name
    pc,             \* where main() is: mkdir, check, glob, loop, exit
    files,          \* main's list files
    entries,        \* main's list entries, of (rel, sym)
    status,         \* the process's exit status, once it has exited
    error,          \* which fatal message ended the run, if one did
    reported,       \* the count printed by the success message
    run,            \* number of the run, from 1
    wrote,          \* names of the files written by this run, in order
    idxData,        \* history: the bytes each record's Asset had when the
                    \* manifest now standing was written
    allDistinct,    \* history: no run so far met two files with one symbol
    first,          \* history: what the first of two identical runs left
    rel_in, sym_out, data_in, hdr_out   \* sym_from_rel and write_header alone

progVars == <<in_dir_ok, tree, recursive, out_dir_exists, out_files, pc, files,
              entries, status, error, reported, run, wrote, idxData,
              allDistinct, first>>
pureVars == <<rel_in, sym_out, data_in, hdr_out>>
vars == <<in_dir_ok, tree, recursive, out_dir_exists, out_files, pc, files,
          entries, status, error, reported, run, wrote, idxData,
          allDistinct, first, rel_in, sym_out, data_in, hdr_out>>

NoStatus == 0 - 1
NoSnapshot == [taken |-> FALSE]

\* the symbols of a list of paths are pairwise distinct
SymsDistinct(fs) ==
    \A m, n \in 1..Len(fs) :
        m # n => sym_from_rel(RelOf(fs[m])) # sym_from_rel(RelOf(fs[n]))

PureIdle ==
    /\ rel_in = <<>> /\ sym_out = <<>> /\ data_in = <<>> /\ hdr_out = <<>>

\* a run starts with an input directory that is missing or holds some tree,
\* and with the recursive flag set or not
Init ==
    /\ \E ok \in BOOLEAN, t \in Trees, rec \in BOOLEAN :
          /\ (ok \/ t = NoTree)
          /\ in_dir_ok = ok /\ tree = t /\ recursive = rec
    /\ out_dir_exists = FALSE
    /\ out_files = NoFiles
    /\ pc = "mkdir"
    /\ files = <<>> /\ entries = <<>>
    /\ status = NoStatus /\ error = "none" /\ reported = NoStatus
    /\ run = 1
    /\ wrote = <<>>
    /\ idxData = <<>>
    /\ allDistinct = TRUE
    /\ first = NoSnapshot
    /\ PureIdle

\* raise SystemExit(message): nothing more runs, the exit status is 1
Fatal(msg) ==
    /\ pc' = "exit" /\ status' = 1 /\ error' = msg

\* line 38: out_dir.mkdir(parents=True, exist_ok=True)
Mkdir ==
    /\ pc = "mkdir"
    /\ out_dir_exists' = TRUE
    /\ pc' = "check"
    /\ UNCHANGED <<in_dir_ok, tree, recursive, out_files, files, entries, status,
                   error, reported, run, wrote, idxData, allDistinct, first>>
    /\ UNCHANGED pureVars

\* lines 40-41
CheckInDir ==
    /\ pc = "check"
    /\ IF ~in_dir_ok
       THEN Fatal("input dir not found")
       ELSE pc' = "glob" /\ UNCHANGED <<status, error>>
    /\ UNCHANGED <<in_dir_ok, tree, recursive, out_dir_exists, out_files, files,
                   entries, reported, run, wrote, idxData, allDistinct, first>>
    /\ UNCHANGED pureVars

\* line 46: not files
AnyListPasses(fs) == FALSE
NoneFound(fs) == fs = <<>>

\* lines 43-49: the file system enumerates the matches in some order
Discover ==
    /\ pc = "glob"
    /\ \E enum \in Enumerations(Matched(tree, recursive)) :
          /\ files' = sorted(enum)
          /\ allDistinct' = (allDistinct /\ SymsDistinct(enum))
    /\ IF NoneFound(files')
       THEN Fatal("no files matching")
       ELSE pc' = "loop" /\ UNCHANGED <<status, error>>
    /\ entries' = <<>>
    /\ UNCHANGED <<in_dir_ok, tree, recursive, out_dir_exists, out_files,
                   reported, run, wrote, idxData, first>>
    /\ UNCHANGED pureVars

\* the for loop of line 50 has no file left
LoopEndsEarly(es, fs) == Len(es) >= 1
LoopDone(es, fs) == Len(es) = Len(fs)

\* line 53
NeverEmpty(data) == FALSE
IsEmpty(data) == Len(data) = 0

\* lines 50-59: one turn of the loop
ProcessFile ==
    /\ pc = "loop"
    /\ ~LoopDone(entries, files)
    /\ LET p == files[Len(entries) + 1]
           rel == RelOf(p)
           data == ReadBytes(tree, p)
           sym == sym_from_rel(rel)
       IN  IF IsEmpty(data)
           THEN /\ Fatal("empty file")
                /\ UNCHANGED <<out_files, entries, wrote>>
           ELSE /\ out_files' = WriteFile(out_files, HeaderName(sym), HeaderFile(sym, data))
                /\ wrote' = Append(wrote, HeaderName(sym))
                /\ entries' = Append(entries, <<rel, sym>>)
                /\ UNCHANGED <<pc, status, error>>
    /\ UNCHANGED <<in_dir_ok, tree, recursive, out_dir_exists, files, reported,
                   run, idxData, allDistinct, first>>
    /\ UNCHANGED pureVars

\* lines 61-74: the manifest, the success message, exit status 0
WriteManifest ==
    /\ pc = "loop"
    /\ LoopDone(entries, files)
    /\ out_files' = WriteFile(out_files, IDX_NAME, ManifestFile(entries))
    /\ wrote' = Append(wrote, IDX_NAME)
    /\ idxData' = [n \in 1..Len(entries) |-> ReadBytes(tree, files[n])]
    /\ reported' = Len(entries)
    /\ pc' = "exit" /\ status' = 0
    /\ UNCHANGED <<in_dir_ok, tree, recursive, out_dir_exists, files, entries,
                   error, run, allDistinct, first>>
    /\ UNCHANGED pureVars

\* what a run starts from, whatever the output directory holds
StartRun(ok, t, rec) ==
    /\ in_dir_ok' = ok /\ tree' = t /\ recursive' = rec
    /\ pc' = "mkdir"
    /\ files' = <<>> /\ entries' = <<>>
    /\ status' = NoStatus /\ error' = "none" /\ reported' = NoStatus
    /\ run' = run + 1
    /\ wrote' = <<>>

\* the generator is run again over the same output directory; the input
\* tree and the flag may have changed
NewRun ==
    /\ pc = "exit"
    /\ run < MaxRuns
    /\ \E ok \in BOOLEAN, t \in Trees, rec \in BOOLEAN :
          /\ (ok \/ t = NoTree)
          /\ StartRun(ok, t, rec)
    /\ UNCHANGED <<out_dir_exists, out_files, idxData, allDistinct, first>>
    /\ UNCHANGED pureVars

\* the generator is run a second time with the same configuration on the
\* unchanged tree, over the first run's output or into a fresh directory
Rerun ==
    /\ pc = "exit"
    /\ run = 1
    /\ first' = [taken |-> TRUE, out_files |-> out_files, status |-> status,
                 error |-> error, reported |-> reported, wrote |-> wrote,
                 out_dir_exists |-> out_dir_exists]
    /\ StartRun(in_dir_ok, tree, recursive)
    /\ \E fresh \in BOOLEAN :
          IF fresh
          THEN out_dir_exists' = FALSE /\ out_files' = NoFiles
          ELSE UNCHANGED <<out_dir_exists, out_files>>
    /\ UNCHANGED <<idxData, allDistinct>>
    /\ UNCHANGED pureVars

Next == Mkdir \/ CheckInDir \/ Discover \/ ProcessFile \/ WriteManifest \/ NewRun

Spec == Init /\ [][Next]_vars

NextTwice == Mkdir \/ CheckInDir \/ Discover \/ ProcessFile \/ WriteManifest \/ Rerun

SpecTwice == Init /\ [][NextTwice]_vars


\* ------------------------------------- sym_from_rel and write_header alone
\* characters at and around the edges of the class [A-Za-z0-9_]:
\* space - . / 0 9 : @ A Z [ _ ` a z { and e-acute
RelAlphabet == {32, 45, 46, 47, 48, 57, 58, 64, 65, 90, 91, 95, 96, 97, 122, 123, 233}

RelInputs == UNION { [1..n -> RelAlphabet] : n \in 1..MaxRelLen }

\* byte strings of every length up to MaxDataLen, and every single byte
GenData(n, s, d) == [m \in 1..n |-> (s + (m - 1) * d) % 256]
DataInputs ==
    { GenData(n, s, d) : n \in 0..MaxDataLen, s \in {0, 9, 171, 255}, d \in {0, 1, 17} }
    \cup { <<b>> : b \in 0..255 }

ProgIdle ==
    /\ in_dir_ok = FALSE /\ tree = NoTree /\ recursive = FALSE
    /\ out_dir_exists = FALSE /\ out_files = NoFiles
    /\ pc = "call"
    /\ files = <<>> /\ entries = <<>>
    /\ status = NoStatus /\ error = "none" /\ reported = NoStatus
    /\ run = 0 /\ wrote = <<>> /\ idxData = <<>>
    /\ allDistinct = TRUE /\ first = NoSnapshot

InitPure ==
    /\ ProgIdle
    /\ sym_out = <<>> /\ hdr_out = <<>>
    /\ \/ rel_in \in RelInputs /\ data_in = <<>>
       \/ rel_in = RelOf(F_a_bc) /\ data_in \in DataInputs

\* a call of sym_from_rel(rel_in)
CallSymFromRel ==
    /\ pc = "call"
    /\ sym_out = <<>>
    /\ sym_out' = sym_from_rel(rel_in)
    /\ UNCHANGED <<rel_in, data_in, hdr_out>>
    /\ UNCHANGED progVars

\* a call of write_header(path, sym_out, data_in), the file it leaves
CallWriteHeader ==
    /\ pc = "call"
    /\ sym_out # <<>>
    /\ hdr_out = <<>>
    /\ hdr_out' = HeaderFile(sym_out, data_in)
    /\ UNCHANGED <<rel_in, data_in, sym_out>>
    /\ UNCHANGED progVars

NextPure == CallSymFromRel \/ CallWriteHeader

SpecPure == InitPure /\ [][NextPure]_vars


\* ============================================================== properties
\* What a C compiler reads from an initialiser: line breaks dropped, the
\* literals split at the commas, each "0x.." literal read as a number.
StripNewlines(s) == SelectSeq(s, LAMBDA c : c # 10)

HexVal(c) ==
    IF c \in 48..57 THEN c - 48
    ELSE IF c \in 97..102 THEN c - 87
    ELSE IF c \in 65..70 THEN c - 55
    ELSE 0 - 1000

RECURSIVE HexNum(_)
HexNum(ds) ==
    IF ds = <<>> THEN 0
    ELSE 16 * HexNum(SubSeq(ds, 1, Len(ds) - 1)) + HexVal(ds[Len(ds)])

LitVal(tok) ==
    IF Len(tok) >= 3 /\ tok[1] = 48 /\ tok[2] = 120
    THEN HexNum(SubSeq(tok, 3, Len(tok)))
    ELSE 0 - 1

FirstComma(s) ==
    IF \E n \in 1..Len(s) : s[n] = 44
    THEN CHOOSE n \in 1..Len(s) : s[n] = 44 /\ \A m \in 1..(n - 1) : s[m] # 44
    ELSE Len(s) + 1

RECURSIVE DecodeLits(_)
DecodeLits(s) ==
    IF s = <<>> THEN <<>>
    ELSE <<LitVal(SubSeq(s, 1, FirstComma(s) - 1))>>
         \o DecodeLits(SubSeq(s, FirstComma(s) + 1, Len(s)))

DecodeBody(body) == DecodeLits(StripNewlines(body))

\* a relative path string split at "/" into its components
RECURSIVE SplitRel(_)
SplitRel(rel) ==
    IF \E n \in 1..Len(rel) : rel[n] = 47
    THEN LET c == CHOOSE n \in 1..Len(rel) : rel[n] = 47 /\ \A m \in 1..(n - 1) : rel[m] # 47
         IN  <<SubSeq(rel, 1, c - 1)>> \o SplitRel(SubSeq(rel, c + 1, Len(rel)))
    ELSE <<rel>>

Range(s) == {s[n] : n \in 1..Len(s)}

AsciiLetterDigitUnderscore(c) ==
    \/ c \in {48, 49, 50, 51, 52, 53, 54, 55, 56, 57, 95}
    \/ (c >= 65 /\ c <= 90)
    \/ (c >= 97 /\ c <= 122)

Succeeded == pc = "exit" /\ status = 0
Manifest == out_files[IDX_NAME]
MatchedNow == Matched(tree, recursive)
SomeEmptyMatch == \E p \in MatchedNow : Len(tree[p]) = 0
\* the place in files of the first file that holds no bytes
FirstEmpty == CHOOSE n \in 1..Len(files) :
                  /\ Len(tree[files[n]]) = 0
                  /\ \A m \in 1..(n - 1) : Len(tree[files[m]]) # 0

\* C1: for non-empty data, the header written by write_header holds exactly
\* len(data) hex literals, which decode in order to data whatever the row
\* breaks, and declares <symbol>_len as len(data).
C1_HeaderRoundTrip ==
    (pc = "call" /\ hdr_out # <<>> /\ data_in # <<>>) =>
        /\ Len(DecodeBody(hdr_out.body)) = Len(data_in)
        /\ DecodeBody(hdr_out.body) = data_in
        /\ hdr_out.len = Len(data_in)
        /\ hdr_out.sym = sym_out

C1_Witness ==
    /\ pc = "call" /\ hdr_out # <<>>
    /\ Len(data_in) > 2 * RowLen
    /\ \E n \in 1..(Len(hdr_out.body) - 1) : hdr_out.body[n] = 10

\* C2 as stated: in a successful run the records of the manifest ascend by
\* the relative path string.
C2_RecordsAscendByRelString ==
    Succeeded =>
        \A m, n \in 1..Len(Manifest.records) :
            m < n => StrLess(Manifest.records[m][1], Manifest.records[n][1])

\* C2 amended: in a successful run the records, and the include directives
\* with them, ascend by the path compared component by component; when every
\* matched file lies directly in the input directory this is the ascending
\* order of the relative path strings.
C2_RecordsAscendByComponents ==
    Succeeded =>
        /\ \A m, n \in 1..Len(Manifest.records) :
              m < n => PathLess(SplitRel(Manifest.records[m][1]),
                                SplitRel(Manifest.records[n][1]))
        /\ Len(Manifest.includes) = Len(Manifest.records)
        /\ \A n \in 1..Len(Manifest.records) :
              Manifest.includes[n] = HeaderName(sym_from_rel(Manifest.records[n][1]))
        /\ (\A p \in MatchedNow : Len(p) = 1) =>
              \A m, n \in 1..Len(Manifest.records) :
                  m < n => StrLess(Manifest.records[m][1], Manifest.records[n][1])

C2_Witness ==
    /\ Succeeded
    /\ recursive
    /\ Len(Manifest.records) = 3
    /\ \E m, n \in 1..3 :
          m < n /\ StrLess(Manifest.records[n][1], Manifest.records[m][1])

\* C3 as stated: within one run any two matched files get distinct symbols,
\* and no header written in the run is written again in the same run.
C3_SymbolsUnique ==
    /\ \A m, n \in 1..Len(files) :
          m # n => sym_from_rel(RelOf(files[m])) # sym_from_rel(RelOf(files[n]))
    /\ \A m, n \in 1..Len(wrote) : m # n => wrote[m] # wrote[n]

\* C4: in a successful run the manifest holds one include directive and one
\* record per Asset, each record with the Asset's relative path, its symbol
\* and <symbol>_len, none missing and none repeated, and the count of the
\* success message is the number of records.
C4_ManifestComplete ==
    Succeeded =>
        /\ IDX_NAME \in DOMAIN out_files
        /\ Len(Manifest.records) = Cardinality(MatchedNow)
        /\ Len(Manifest.includes) = Cardinality(MatchedNow)
        /\ reported = Len(Manifest.records)
        /\ {Manifest.records[n][1] : n \in 1..Len(Manifest.records)}
              = {RelOf(p) : p \in MatchedNow}
        /\ \A m, n \in 1..Len(Manifest.records) :
              m # n => Manifest.records[m][1] # Manifest.records[n][1]
        /\ \A n \in 1..Len(Manifest.records) :
              LET rel == Manifest.records[n][1]
              IN  /\ Manifest.records[n] =
                        <<rel, sym_from_rel(rel), sym_from_rel(rel) \o <<95, 108, 101, 110>> >>
                  /\ Manifest.includes[n] = sym_from_rel(rel) \o <<46, 104>>

C4_Witness == Succeeded /\ Len(Manifest.records) >= 2 /\ run >= 2

\* C5: when a matched file has no bytes the run exits with a non-zero
\* status, having written headers for exactly the files before the first
\* empty one in processing order, which stay in place, and no manifest.
C5_EmptyFileStopsRun ==
    (pc = "exit" /\ in_dir_ok /\ SomeEmptyMatch) =>
        /\ status # 0 /\ status # NoStatus
        /\ wrote = [n \in 1..(FirstEmpty - 1) |->
                        HeaderName(sym_from_rel(RelOf(files[n])))]
        /\ \A n \in 1..(FirstEmpty - 1) :
              /\ HeaderName(sym_from_rel(RelOf(files[n]))) \in DOMAIN out_files
              /\ out_files[HeaderName(sym_from_rel(RelOf(files[n])))].kind = "header"
        /\ \A n \in 1..Len(wrote) : wrote[n] # IDX_NAME
        /\ run = 1 => DOMAIN out_files = Range(wrote)

C5_Witness ==
    /\ pc = "exit" /\ in_dir_ok /\ SomeEmptyMatch
    /\ FirstEmpty = 2 /\ Len(files) = 3
    /\ Len(wrote) = 1

\* C6: a run that finds no input directory, or no matching file, exits with
\* a non-zero status and writes no file; the output directory itself has
\* been created, before the input directory is looked at.
C6_EarlyFailureWritesNothing ==
    /\ (pc = "exit" /\ (~in_dir_ok \/ MatchedNow = {})) =>
          /\ status # 0 /\ status # NoStatus
          /\ wrote = <<>>
          /\ run = 1 => out_files = NoFiles
          /\ out_dir_exists
    /\ pc \in {"check", "glob", "loop", "exit"} => out_dir_exists

C6_Witness ==
    /\ pc = "exit" /\ in_dir_ok /\ MatchedNow = {}
    /\ tree[F_a_bc] # Absent

\* C7 as stated: nothing is written until every matched file has been read
\* and accepted into entries.
C7_NothingWrittenBeforeAllRead ==
    wrote # <<>> => Len(entries) = Len(files)

\* C7 amended: the manifest is written only once every matched file has been
\* read and accepted into entries; each header is written as its file is
\* accepted, so while the loop runs the headers written so far are those of
\* the files accepted so far.
C7_ManifestAfterAllRead ==
    /\ (\E n \in 1..Len(wrote) : wrote[n] = IDX_NAME) =>
          /\ Len(entries) = Cardinality(MatchedNow)
          /\ \A p \in MatchedNow : Len(tree[p]) # 0
          /\ \A n \in 1..Len(entries) : entries[n][1] = RelOf(files[n])
    /\ pc = "loop" =>
          wrote = [n \in 1..Len(entries) |-> HeaderName(entries[n][2])]

C7_Witness ==
    /\ pc = "loop"
    /\ Len(wrote) = 1
    /\ Len(files) = 3

\* C8: a second run with the same configuration on the unchanged tree, over
\* the first run's output or into a fresh directory, leaves the same files
\* with the same contents, however the file system enumerated the matches.
C8_SecondRunSameOutput ==
    (run = 2 /\ pc = "exit") =>
        /\ out_files = first.out_files
        /\ wrote = first.wrote
        /\ status = first.status
        /\ reported = first.reported

C8_Witness ==
    /\ run = 2 /\ pc = "exit" /\ status = 0
    /\ Len(files) = 3

\* C9: sym_from_rel(rel) is "asset_" followed by rel with every character
\* that is not an ASCII letter, digit or underscore replaced by "_": it is
\* len(rel)+6 long, holds only such characters and does not start with a
\* digit.
C9_SymbolShape ==
    (pc = "call" /\ sym_out # <<>>) =>
        /\ Len(sym_out) = Len(rel_in) + 6
        /\ SubSeq(sym_out, 1, 6) = <<97, 115, 115, 101, 116, 95>>
        /\ \A n \in 1..Len(rel_in) :
              sym_out[6 + n] =
                  IF AsciiLetterDigitUnderscore(rel_in[n]) THEN rel_in[n] ELSE 95
        /\ \A n \in 1..Len(sym_out) : AsciiLetterDigitUnderscore(sym_out[n])
        /\ ~(sym_out[1] \in 48..57)

C9_Witness ==
    /\ pc = "call" /\ sym_out # <<>>
    /\ Len(rel_in) = 3
    /\ rel_in[1] = 57 /\ rel_in[2] = 47 /\ rel_in[3] = 233

\* C10: over runs sharing one output directory, with pairwise distinct
\* symbols in every run, whenever the manifest exists after a run has ended
\* every header it refers to exists and holds the bytes and the length the
\* Asset had in the run that wrote the manifest.
C10_ManifestMatchesHeaders ==
    (pc = "exit" /\ allDistinct /\ IDX_NAME \in DOMAIN out_files) =>
        \A n \in 1..Len(Manifest.records) :
            LET h == HeaderName(Manifest.records[n][2])
            IN  /\ h \in DOMAIN out_files
                /\ DecodeBody(out_files[h].body) = idxData[n]
                /\ out_files[h].len = Len(idxData[n])

====
